---- MODULE Spec2Model ----
(***************************************************************************)
(* cmlkit.tune.run.Run: the hyper-parameter tuning control loop            *)
(* (src/cmlkit/tune/run/run.py) together with the collaborators it drives: *)
(* State, ResultDB, EvaluationPool, Stopper and Search.  The collaborators *)
(* live in modules of the package that are not part of the source tree     *)
(* (.state, .resultdb, .pool, .stopping); they are modelled from their     *)
(* documented contracts.  The control thread is modelled statement by      *)
(* statement through `pc`; worker processes resolve evaluations and the    *)
(* clock advances concurrently with it.                                    *)
(***************************************************************************)
EXTENDS Integers, Sequences, FiniteSets, TLC

(***************************************************************************)
(* Bounds of the model.                                                    *)
(***************************************************************************)
MaxTrials == 4
MaxTime == 2
MaxWorkers == 2
MaxShutdown == 1
MaxDuration == 1
MaxCalls == 3
MaxEntries == 2
MaxArgs == 3
MaxCacheCalls == 4
MaxDiskCalls == 3
MaxDiskArgs == 2

\* float("inf"): a value the clock never reaches; it absorbs additions.
inf == MaxTime + MaxDuration + 100

\* Option values: a missing attribute / file / argument is <<>>, a present one <<x>>.
None == <<>>
Some(x) == <<x>>

Max(a, b) == IF a >= b THEN a ELSE b

\* The configurations of caught_exceptions the model draws from (the first one
\* is the default).
CaughtChoices == {{"TimeoutError"}, {"TimeoutError", "ValueError"}}

\* The Evaluator is a deterministic function of the configuration.  The model
\* draws it from two:
\*   "plain":  every trial returns; odd trials score 2 and even ones 1, and the
\*             first trial carries a refined loss (refined 0: no refinement data);
\*   "faulty": trial 2 raises ValueError and trial 3 runs longer than any
\*             trial_timeout; the other trials return, without refinement data.
Evaluators == {"plain", "faulty"}
Evaluate(ev, tid) ==
  [does |-> IF ev = "faulty" /\ tid = 2 THEN "raises"
            ELSE IF ev = "faulty" /\ tid = 3 THEN "slow" ELSE "returns",
   loss |-> IF tid % 2 = 1 THEN 2 ELSE 1,
   refined |-> IF ev = "plain" /\ tid = 1 THEN 1 ELSE 0]

\* What the future of a concluded evaluation holds: the evaluator's value or its
\* exception, the pool's TimeoutError, or the cancellation.
Outcome(ev, st, tid) ==
  CASE st = "timeout" ->
         [kind |-> "timeout", loss |-> 0, refined |-> 0, exc |-> "TimeoutError"]
    [] st = "cancelled" ->
         [kind |-> "exc", loss |-> 0, refined |-> 0, exc |-> "CancelledError"]
    [] st = "done" /\ Evaluate(ev, tid).does = "raises" ->
         [kind |-> "exc", loss |-> 0, refined |-> 0, exc |-> "ValueError"]
    [] OTHER ->
         [kind |-> "ok", loss |-> Evaluate(ev, tid).loss,
          refined |-> Evaluate(ev, tid).refined, exc |-> ""]

\* Stopper configurations: stop once n successes are recorded, or once the
\* clock reaches t (inf: that criterion is off).
StopChoices == { [n |-> 2, t |-> inf], [n |-> inf, t |-> 2] }

Durations == (1..MaxDuration) \cup {inf}

VARIABLES
  \* ---- configuration (Run.__init__)
  context,            \* [max_workers, shutdown_duration, wait_per_loop]
  trial_timeout,      \* None or Some(seconds)
  caught_exceptions,  \* set of exception kind names
  stop,               \* the Stopper's configuration
  evaluator,          \* which Evaluator the run was configured with
  name,               \* self.name: None when the attribute was never set
  ready,              \* self.ready
  \* ---- the control thread
  pc,                 \* position of the control thread ("idle": no call in progress)
  outcome,            \* how the last call ended: "", "returned" or the error raised
  calls,              \* number of calls made on the Run object
  end,                \* run(): the deadline
  futures,            \* run(): handle -> TrialID
  done, running,      \* run(): what the last wait returned
  n_new_trials,       \* run(): suggestions still to schedule in this top-up
  waitStart,          \* clock value at which the wait in progress began
  \* ---- State / ResultDB / Search
  hasState,           \* prepare() has constructed State, ResultDB and the pool
  evals,              \* ResultDB: sequence of [tid, result]
  tape,               \* State.tape: sequence of <<event, tid>>
  nextTid,            \* Search: the next TrialID it issues
  \* ---- EvaluationPool
  tasks,              \* handle -> [tid, st]
  poolShut,           \* number of shutdown() calls the pool has received
  \* ---- the work directory
  disk,               \* [run_yml, log, status, tape, suggestions, refined]
  \* ---- environment
  now,                \* time.monotonic()
  \* ---- history (observation only)
  h,
  \* ---- a memcached function (engine/caching.py)
  memo,               \* [max_entries, cache, lruc, hits, misses, total_hits, total_misses]
  mh,                 \* history of the calls made on it (observation only)
  \* ---- two diskcached functions sharing a cache_location (engine/caching.py)
  dc,                 \* wrapped function -> [cache_location, name, min_duration, hits, misses]
  files,              \* the cache_location: filename -> [val, name, duration, readable]
  dh                  \* history of the calls made on them (observation only)

configVars == <<context, trial_timeout, caught_exceptions, stop, evaluator, name>>
loopVars == <<end, futures, done, running, n_new_trials, waitStart>>
stateVars == <<hasState, evals, tape, nextTid>>
poolVars == <<tasks, poolShut>>
diskVars == <<dc, files, dh>>
cacheVars == <<memo, mh, diskVars>>
vars == <<configVars, ready, pc, outcome, calls, loopVars,
          stateVars, poolVars, disk, now, h, cacheVars>>


(***************************************************************************)
(* ResultDB, State, Search, Stopper, EvaluationPool: contracts.            *)
(***************************************************************************)
\* Search: the configuration it proposes for a TrialID.
SuggestionOf(tid) == [point |-> tid]

\* The empty mapping {}.
EmptyConfig == [point |-> 0]

\* EvaluationPool.finish: does retrieving this outcome raise?  A timeout and an
\* exception on the caught list become Failures, any other exception propagates.
FinishRaises(o, caught) == o.kind = "exc" /\ o.exc \notin caught

\* EvaluationPool.finish: the TrialResult of an outcome that does not raise.
Finish(o) ==
  IF o.kind = "ok"
    THEN [kind |-> "Success", loss |-> o.loss, refined |-> o.refined, failure |-> ""]
    ELSE [kind |-> "Failure", loss |-> 0, refined |-> 0,
          failure |-> IF o.kind = "timeout" THEN "Timeout" ELSE o.exc]

\* ResultDB: the TrialIDs it holds, and its Success entries in submission order.
Recorded(ev) == { ev[i].tid : i \in 1..Len(ev) }
IsSuccess(e) == e.result.kind = "Success"
Successes(ev) == SelectSeq(ev, IsSuccess)

\* The ranking key of an entry: its loss, or its refined loss (an entry without
\* refinement data ranks after every entry that has some).
Key(e, which) ==
  IF which = "loss" THEN e.result.loss
  ELSE IF e.result.refined = 0 THEN inf ELSE e.result.refined

\* (mutant) ties go to the later submission.
FirstLatestOnTies(s, which) ==
  CHOOSE i \in 1..Len(s) : \A j \in 1..Len(s) :
    \/ Key(s[i], which) < Key(s[j], which)
    \/ Key(s[i], which) = Key(s[j], which) /\ i >= j

\* Position of the entry that ranks first: lowest key, earliest submission on ties.
First(s, which) ==
  CHOOSE i \in 1..Len(s) : \A j \in 1..Len(s) :
    \/ Key(s[i], which) < Key(s[j], which)
    \/ Key(s[i], which) = Key(s[j], which) /\ i <= j

RemoveAt(s, i) == SubSeq(s, 1, i - 1) \o SubSeq(s, i + 1, Len(s))

RECURSIVE Ranked(_, _)
Ranked(s, which) ==
  IF s = <<>> THEN <<>>
  ELSE LET i == First(s, which) IN <<s[i]>> \o Ranked(RemoveAt(s, i), which)

Take(s, k) == SubSeq(s, 1, IF Len(s) < k THEN Len(s) ELSE k)

TopK == 5

\* ResultDB.top_suggestions(k): configurations of the k best Success entries.
top_suggestions(ev, k) ==
  LET r == Take(Ranked(Successes(ev), "loss"), k)
  IN [i \in 1..Len(r) |-> r[i].config]

\* ResultDB.top_refined_suggestions(k): the same over the refined loss; an entry
\* without refinement data yields the empty entry.
top_refined_suggestions(ev, k) ==
  LET r == Take(Ranked(Successes(ev), "refined"), k)
  IN [i \in 1..Len(r) |-> IF r[i].result.refined = 0 THEN EmptyConfig ELSE r[i].config]

\* Stopper.done(state): enough successes recorded, or the wall clock ran out.
StopDone(st, ev, t) == Len(Successes(ev)) >= st.n \/ t >= st.t

(***************************************************************************)
(* Run: pure pieces of run.py.                                             *)
(***************************************************************************)
\* Run.__init__, lines 69-70: self.name is assigned only when no name is given.
InitName(nameArg) == IF nameArg = None THEN Some("auto") ELSE None

\* Run.run, line 115: end = start + duration - shutdown_duration.
Deadline(t, duration, sd) == IF duration = inf THEN inf ELSE t + duration - sd

\* Run.__call__, line 109: the duration run() receives from __call__(duration).
CallDuration(duration) == inf

\* (mutant) the assertion is missing.
ReadyAssertOff(rdy) == TRUE

\* Run.run, line 112: the assertion guarding run().
ReadyAssert(rdy) == rdy

\* (mutant) the loop condition tests the deadline only.
LoopConditionDeadlineOnly(t, e, st, ev) == t < e

\* Run.run, line 119: the loop condition.
LoopCondition(t, e, st, ev) == t < e /\ ~StopDone(st, ev, t)

\* (mutant) the top-up is one too large.
NNewTrialsOffByOne(mw, r) == Max(0, mw + 2 - r)

\* (mutant) the top-up ignores what is still running.
NNewTrialsIgnoreRunning(mw, r) == mw + 1

\* (mutant) the top-up fills up to max_workers only.
NNewTrialsUpToWorkers(mw, r) == Max(0, mw - r)

\* Run.run, line 135: the size of the top-up.
NNewTrials(mw, r) == Max(0, mw + 1 - r)

\* (mutant) the harvested handle is not deleted.
DelFutureKeep(fs, f) == fs

\* Run.run, line 133: the in-flight map after harvesting handle f.
DelFuture(fs, f) == [x \in DOMAIN fs \ {f} |-> fs[x]]

\* (mutant) the handle is not stored.
PutFutureDrop(fs, f, tid) == fs

\* (mutant) the handle is stored under a TrialID that is already in flight.
PutFutureStale(fs, f, tid) ==
  [x \in DOMAIN fs \cup {f} |->
     IF x # f THEN fs[x]
     ELSE IF DOMAIN fs = {} THEN tid ELSE fs[CHOOSE y \in DOMAIN fs : TRUE]]

\* (mutant) the assignment replaces the TrialID of every handle.
PutFutureOverwrite(fs, f, tid) == [x \in DOMAIN fs \cup {f} |-> tid]

\* Run.run, line 140: the in-flight map after scheduling tid under handle f.
PutFuture(fs, f, tid) == [x \in DOMAIN fs \cup {f} |-> IF x = f THEN tid ELSE fs[x]]

\* Run.write_status, lines 163-172: the snapshot that replaces status.txt.
WriteStatus(d, msg, n) == [d EXCEPT !.status = Some([message |-> msg, active |-> n])]

NoDisk == [run_yml |-> None, log |-> FALSE, status |-> None, tape |-> None,
           suggestions |-> <<>>, refined |-> <<>>]

\* History: what the calls so far did.
\*   loops, finished: run loops started / run() calls that returned;
\*   submits: the TrialIDs passed to State.submit, in order;
\* and about the latest run() call:
\*   deadline: start + duration - shutdown_duration for the duration the caller gave;
\*   scheduled: the TrialIDs it scheduled;  reported: those a wait reported as timed out;
\*   abandoned: those still in the in-flight map when it returned;
\*   io: its exit steps, in order.
NoHistory == [loops |-> 0, finished |-> 0, submits |-> <<>>, deadline |-> 0,
              scheduled |-> {}, reported |-> {}, abandoned |-> {}, io |-> <<>>]

(***************************************************************************)
(* memcached: pure pieces of engine/caching.py.                            *)
(***************************************************************************)
\* memcached.__init__, lines 28-36.
NewMemcached(max_entries) ==
  [max_entries |-> max_entries, cache |-> <<>>, lruc |-> 0,
   hits |-> 0, misses |-> 0, total_hits |-> 0, total_misses |-> 0]

\* fast_hash: the key of the arguments; different arguments, different keys.
fast_hash(args) == [digest |-> args]

\* The wrapped function f.
F(args) == 10 * args

\* (mutant) the eviction starts one entry too late.
OverflowsLate(cache, max_entries) == Cardinality(DOMAIN cache) > max_entries + 1

\* Line 57: the new entry exceeded the maximum.
Overflows(cache, max_entries) == Cardinality(DOMAIN cache) > max_entries

\* (mutant) the scan keeps its starting point: the entry just inserted goes.
VictimJustInserted(cache, lruc, key) == key

\* Lines 58-61: the key to delete, the one whose entry has the lowest counter
\* below the current lruc; `key` when there is none.
Victim(cache, lruc, key) ==
  IF \E k \in DOMAIN cache : cache[k].lruc < lruc
    THEN CHOOSE k \in DOMAIN cache :
           /\ cache[k].lruc < lruc
           /\ \A k2 \in DOMAIN cache : cache[k].lruc <= cache[k2].lruc
    ELSE key

\* cache[key] = [lruc, value] and del cache[k] on a dict.
DictPut(cache, key, item) ==
  [k \in DOMAIN cache \cup {key} |-> IF k = key THEN item ELSE cache[k]]
DictDel(cache, key) == [k \in DOMAIN cache \ {key} |-> cache[k]]

\* History of the calls: how many were made, how often f was invoked, the key of
\* the latest call and what it returned, and `lru`: the keys a reference LRU
\* cache of the same capacity holds, least recently used first.
NoCalls == [calls |-> 0, invoked |-> 0, key |-> None, returned |-> None, lru |-> <<>>]

\* The reference LRU cache after a use (hit or insertion) of `key`.
RefUse(lru, key, capacity) ==
  LET Other(k) == k # key
      used == Append(SelectSeq(lru, Other), key)
  IN IF Len(used) > capacity THEN Tail(used) ELSE used

(***************************************************************************)
(* diskcached: pure pieces of engine/caching.py.                           *)
(***************************************************************************)
\* The two functions that get wrapped, and what they compute.
Wrapped == {"f", "g"}
Fw(w, args) == IF w = "f" THEN 10 * args ELSE 10 * args + 1

\* Line 86: the defaults of diskcached.__init__ (durations in tenths of a second).
DefaultName == "noname"
MinDuration == 5

\* How long a computation takes: less or more than min_duration.
Durations10 == {2, 8}

\* diskcached.__init__, lines 86-92.
NewDiskcached(cache_location, fname, min_duration) ==
  [cache_location |-> cache_location, name |-> fname, min_duration |-> min_duration,
   hits |-> 0, misses |-> 0]

\* make_discached, lines 72-75: diskcached(f, cache_location); `name` is not
\* passed on.
make_discached(cache_location, fname) ==
  NewDiskcached(cache_location, DefaultName, MinDuration)

\* compute_hash: the key of the name and the arguments; different inputs,
\* different keys.
compute_hash(fname, args) == [digest |-> <<fname, args>>]

\* Line 108: cache_location + name + '.' + key + '.cache.npy'
Filename(d, key) == [dir |-> d.cache_location, name |-> d.name, key |-> key]

\* Line 133: is the result worth caching?
WorthCaching(duration, min_duration) == duration > min_duration

\* (mutant) the hit is counted before the file is read.
HitsAfterFailedReadEarly(hits) == hits + 1

\* Lines 112-116: self.hits += 1 follows read_npy, so a read that raises leaves
\* hits as it was.
HitsAfterFailedRead(hits) == hits

\* History of the diskcached calls: how the wrappers were built, how many calls
\* were made, how often a wrapped function was invoked, the latest call and what
\* it returned, what it found under its filename ("nothing", "readable",
\* "unreadable"), who saved each file, and whose file the latest call read (None
\* when it computed).
NoDiskCalls == [via |-> "", calls |-> 0, invoked |-> 0, last |-> None, found |-> "",
                returned |-> None, saved |-> <<>>, readfrom |-> None]

(***************************************************************************)
(* Initial state: a constructed Run, prepare() not yet called.             *)
(***************************************************************************)
Init ==
  /\ context \in [max_workers : 1..MaxWorkers,
                  shutdown_duration : 0..MaxShutdown,
                  wait_per_loop : {1}]
  /\ trial_timeout \in {None, Some(1)}
  /\ caught_exceptions \in CaughtChoices
  /\ stop \in StopChoices
  /\ evaluator \in Evaluators
  /\ \E nameArg \in {None, Some("given")} : name = InitName(nameArg)
  /\ ready = FALSE
  /\ pc = "idle" /\ outcome = "" /\ calls = 0
  /\ end = 0 /\ futures = <<>> /\ done = {} /\ running = {}
  /\ n_new_trials = 0 /\ waitStart = 0
  /\ hasState = FALSE /\ evals = <<>> /\ tape = <<>> /\ nextTid = 1
  /\ tasks = <<>> /\ poolShut = 0
  /\ disk = NoDisk
  /\ now = 0
  /\ h = NoHistory
  /\ memo = NewMemcached(0) /\ mh = NoCalls
  /\ dc = <<>> /\ files = <<>> /\ dh = NoDiskCalls

(***************************************************************************)
(* Calls on the Run object.                                                *)
(***************************************************************************)
\* Run.prepare, lines 84-106.  With self.name unset line 85 raises.
Prepare ==
  /\ pc = "idle" /\ calls < MaxCalls
  /\ calls' = calls + 1
  /\ IF name = None
       THEN /\ outcome' = "AttributeError"
            /\ UNCHANGED <<ready, stateVars, poolVars, disk>>
       ELSE /\ outcome' = "prepared"
            /\ disk' = [disk EXCEPT !.run_yml = Some(name[1]), !.log = TRUE]
            /\ hasState' = TRUE /\ evals' = <<>> /\ tape' = <<>>
            /\ tasks' = <<>> /\ poolShut' = 0
            /\ ready' = TRUE
            /\ UNCHANGED nextTid
  /\ UNCHANGED <<cacheVars, configVars, pc, loopVars, now, h>>

\* Run.run, lines 111-117, entered with `duration`; `asked` is what the caller passed.
Enter(asked, duration) ==
  /\ pc = "idle" /\ calls < MaxCalls
  /\ calls' = calls + 1
  /\ IF ReadyAssert(ready)
       THEN /\ pc' = "loop"
            /\ outcome' = ""
            /\ end' = Deadline(now, duration, context.shutdown_duration)
            /\ futures' = <<>>
            /\ done' = {} /\ running' = {} /\ n_new_trials' = 0
            /\ h' = [h EXCEPT !.loops = @ + 1,
                              !.deadline = Deadline(now, asked, context.shutdown_duration),
                              !.scheduled = {}, !.reported = {}, !.abandoned = {},
                              !.io = <<>>]
       ELSE /\ outcome' = "AssertionError"
            /\ UNCHANGED <<pc, end, futures, done, running, n_new_trials, h>>
  /\ UNCHANGED <<cacheVars, configVars, ready, waitStart, stateVars, poolVars, disk, now>>

\* run(duration)
CallRun == \E d \in Durations : Enter(d, d)

\* __call__(duration), lines 108-109
CallDunder == \E d \in Durations : Enter(d, CallDuration(d))


(***************************************************************************)
(* The run loop, lines 119-140.                                            *)
(***************************************************************************)
\* The locals of run() are gone once the call has ended.
NoLocals ==
  /\ end' = 0 /\ futures' = <<>> /\ done' = {} /\ running' = {}
  /\ n_new_trials' = 0 /\ waitStart' = 0

\* The call in progress ends by raising `err`.
Raise(err) == pc' = "idle" /\ outcome' = err /\ NoLocals

\* Line 119-121: the loop condition; a new iteration begins with a status write.
LoopTest ==
  /\ pc = "loop"
  /\ IF LoopCondition(now, end, stop, evals)
       THEN /\ pc' = "wait"
            /\ waitStart' = now
            /\ disk' = WriteStatus(disk, "Running.", Cardinality(DOMAIN futures))
       ELSE /\ pc' = "exit"
            /\ UNCHANGED <<waitStart, disk>>
  /\ UNCHANGED <<cacheVars, configVars, ready, outcome, calls, end, futures,
                 done, running, n_new_trials, stateVars, poolVars, now, h>>

\* (mutant) every in-flight handle is handed to the harvest.
ConcludedAll(fs) == DOMAIN fs

\* Handles of `fs` whose evaluation has concluded (finished, timed out, raised
\* or cancelled).
Concluded(fs) == { f \in DOMAIN fs : tasks[f].st # "running" }

\* Lines 122-128: wait(..., FIRST_COMPLETED) returns as soon as some handle has
\* concluded, at once when there is none to wait for, and otherwise when
\* wait_per_loop has elapsed; then the stop condition is evaluated again.
WaitReturn ==
  /\ pc = "wait"
  /\ \/ Concluded(futures) # {}
     \/ DOMAIN futures = {}
     \/ now >= waitStart + context.wait_per_loop
  /\ done' = Concluded(futures)
  /\ running' = DOMAIN futures \ Concluded(futures)
  /\ pc' = IF ~StopDone(stop, evals, now) THEN "harvest" ELSE "loop"
  /\ waitStart' = 0
  /\ h' = [h EXCEPT !.reported =
              @ \cup { futures[f] : f \in { x \in Concluded(futures) :
                                               tasks[x].st = "timeout" } }]
  /\ UNCHANGED <<cacheVars, configVars, ready, outcome, calls, end, futures,
                 n_new_trials, stateVars, poolVars, disk, now>>

\* (mutant) an exception of finish is swallowed and the harvest abandoned.
Swallow(err) ==
  /\ done' = {}
  /\ UNCHANGED <<pc, outcome, end, futures, running, n_new_trials, waitStart>>

\* Lines 129-133: nothing around finish() catches, so its exception leaves run().
Propagate(err) == Raise(err)

\* State.submit(tid, result): ResultDB.add and the tape event.
SubmitEvals(ev, tid, res) ==
  Append(ev, [tid |-> tid, config |-> SuggestionOf(tid), result |-> res])
SubmitTape(tp, tid, res) ==
  Append(tp, <<IF res.kind = "Success" THEN "completed" ELSE "failed", tid>>)

\* Lines 129-133, one pass of `for f in done`: finish, submit, del futures[f].
\* An exception of finish or of submit leaves run() at once.
HarvestOne ==
  /\ pc = "harvest"
  /\ \E f \in done :
       LET tid == futures[f]
           o == Outcome(evaluator, tasks[f].st, tid)
       IN IF FinishRaises(o, caught_exceptions)
            THEN /\ Propagate(o.exc)
                 /\ UNCHANGED <<evals, tape, h>>
            ELSE IF tid \in Recorded(evals)
              THEN /\ Raise("ProtocolError")
                   /\ h' = [h EXCEPT !.submits = Append(@, tid)]
                   /\ UNCHANGED <<evals, tape>>
              ELSE /\ evals' = SubmitEvals(evals, tid, Finish(o))
                   /\ tape' = SubmitTape(tape, tid, Finish(o))
                   /\ futures' = DelFuture(futures, f)
                   /\ done' = done \ {f}
                   /\ h' = [h EXCEPT !.submits = Append(@, tid)]
                   /\ UNCHANGED <<pc, outcome, end, running, n_new_trials, waitStart>>
  /\ UNCHANGED <<cacheVars, configVars, ready, calls, hasState, nextTid, poolVars,
                 disk, now>>

\* Line 135: every completed handle is harvested; size the top-up.
HarvestDone ==
  /\ pc = "harvest" /\ done = {}
  /\ n_new_trials' = NNewTrials(context.max_workers, Cardinality(running))
  /\ running' = {}
  /\ pc' = "topup"
  /\ UNCHANGED <<cacheVars, configVars, ready, outcome, calls, end, futures,
                 done, waitStart, stateVars, poolVars, disk, now, h>>

\* Lines 136-140, one pass of the top-up: suggest, schedule, futures[f] = tid.
\* Search has MaxTrials candidates; asking for more is fatal, and so is
\* scheduling on a pool that was shut down.
TopUpOne ==
  /\ pc = "topup" /\ n_new_trials > 0
  /\ IF nextTid > MaxTrials
       THEN /\ Raise("SearchError")
            /\ UNCHANGED <<tape, nextTid, tasks, h>>
       ELSE LET tid == nextTid
                f == Len(tasks) + 1
            IN /\ nextTid' = nextTid + 1
               /\ tape' = Append(tape, <<"suggested", tid>>)
               /\ IF poolShut > 0
                    THEN /\ Raise("PoolError")
                         /\ UNCHANGED <<tasks, h>>
                    ELSE /\ tasks' = Append(tasks, [tid |-> tid, st |-> "running"])
                         /\ futures' = PutFuture(futures, f, tid)
                         /\ n_new_trials' = n_new_trials - 1
                         /\ h' = [h EXCEPT !.scheduled = @ \cup {tid}]
                         /\ UNCHANGED <<pc, outcome, end, done, running, waitStart>>
  /\ UNCHANGED <<cacheVars, configVars, ready, calls, hasState, evals, poolShut,
                 disk, now>>

\* The top-up is complete: back to the loop condition.
TopUpDone ==
  /\ pc = "topup" /\ n_new_trials = 0
  /\ pc' = "loop"
  /\ UNCHANGED <<cacheVars, configVars, ready, outcome, calls, loopVars,
                 stateVars, poolVars, disk, now, h>>


(***************************************************************************)
(* Leaving the loop, lines 142-148, and write_results, lines 150-161.      *)
(***************************************************************************)
\* (mutant) the pool is shut down before the results are written.
ExitStepShutdownFirst(p) ==
  CASE p = "exit" -> "exit_status"
    [] p = "exit_status" -> "shutdown"
    [] p = "shutdown" -> "write_tape"
    [] p = "write_tape" -> "write_suggestions"
    [] p = "write_suggestions" -> "write_refined"
    [] p = "write_refined" -> "last_status"
    [] p = "last_status" -> "idle"

\* Lines 142-148 and 150-161: the order of the statements that follow the loop.
ExitStep(p) ==
  CASE p = "exit" -> "write_tape"
    [] p = "write_tape" -> "write_suggestions"
    [] p = "write_suggestions" -> "write_refined"
    [] p = "write_refined" -> "exit_status"
    [] p = "exit_status" -> "shutdown"
    [] p = "shutdown" -> "last_status"
    [] p = "last_status" -> "idle"

\* Files suggestion-0.. after saving `new` over what the directory held.
SaveNumbered(old, new) ==
  [i \in 1..Max(Len(old), Len(new)) |-> IF i <= Len(new) THEN new[i] ELSE old[i]]

Log(ev) == h' = [h EXCEPT !.io = Append(@, ev)]

\* Line 144: write_status("Done, saving results.")
ExitStatus ==
  /\ pc = "exit"
  /\ disk' = WriteStatus(disk, "Done, saving results.", 0)
  /\ pc' = ExitStep(pc)
  /\ UNCHANGED <<cacheVars, configVars, ready, outcome, calls, loopVars,
                 stateVars, poolVars, now, h>>

\* Line 151: the tape is saved.
WriteTape ==
  /\ pc = "write_tape"
  /\ disk' = [disk EXCEPT !.tape = Some(tape)]
  /\ Log("tape")
  /\ pc' = ExitStep(pc)
  /\ UNCHANGED <<cacheVars, configVars, ready, outcome, calls, loopVars,
                 stateVars, poolVars, now>>

\* Lines 153-155: suggestion-i for every top suggestion.
WriteSuggestions ==
  /\ pc = "write_suggestions"
  /\ disk' = [disk EXCEPT !.suggestions =
                SaveNumbered(@, top_suggestions(evals, TopK))]
  /\ Log("suggestions")
  /\ pc' = ExitStep(pc)
  /\ UNCHANGED <<cacheVars, configVars, ready, outcome, calls, loopVars,
                 stateVars, poolVars, now>>

\* Lines 157-161: refined_suggestion-i, when some refined entry is not empty.
WriteRefined ==
  /\ pc = "write_refined"
  /\ LET refined == top_refined_suggestions(evals, TopK)
     IN IF \E i \in 1..Len(refined) : refined[i] # EmptyConfig
          THEN /\ disk' = [disk EXCEPT !.refined =
                             SaveNumbered(@, top_suggestions(evals, TopK))]
               /\ Log("refined")
          ELSE UNCHANGED <<disk, h>>
  /\ pc' = ExitStep(pc)
  /\ UNCHANGED <<cacheVars, configVars, ready, outcome, calls, loopVars,
                 stateVars, poolVars, now>>

\* Line 146: write_status("Done, initiating shutdown.")
ShutdownStatus ==
  /\ pc = "exit_status"
  /\ disk' = WriteStatus(disk, "Done, initiating shutdown.", 0)
  /\ pc' = ExitStep(pc)
  /\ UNCHANGED <<cacheVars, configVars, ready, outcome, calls, loopVars,
                 stateVars, poolVars, now, h>>

\* EvaluationPool.shutdown: outstanding work is cancelled.
Cancelled(ts) ==
  [f \in DOMAIN ts |-> IF ts[f].st = "running" THEN [ts[f] EXCEPT !.st = "cancelled"]
                       ELSE ts[f]]

\* Line 147: pool.shutdown()
Shutdown ==
  /\ pc = "shutdown"
  /\ tasks' = Cancelled(tasks)
  /\ poolShut' = poolShut + 1
  /\ Log("shutdown")
  /\ pc' = ExitStep(pc)
  /\ UNCHANGED <<cacheVars, configVars, ready, outcome, calls, loopVars,
                 stateVars, disk, now>>

\* Line 148: the last status write; run() returns.
Return ==
  /\ pc = "last_status"
  /\ disk' = WriteStatus(disk, "Done. Have a good day!", 0)
  /\ pc' = ExitStep(pc) /\ outcome' = "returned"
  /\ NoLocals
  /\ h' = [h EXCEPT !.finished = @ + 1,
                    !.abandoned = { futures[f] : f \in DOMAIN futures }]
  /\ UNCHANGED <<cacheVars, configVars, ready, calls, stateVars, poolVars, now>>

(***************************************************************************)
(* Environment: worker processes and the clock.                            *)
(***************************************************************************)
\* How a running evaluation concludes: the pool ends a slow one with a timeout
\* when the run has a trial_timeout, otherwise the evaluator returns or raises.
Conclusion(ev, tid) ==
  IF trial_timeout # None /\ Evaluate(ev, tid).does = "slow" THEN "timeout" ELSE "done"

\* An evaluation concludes in its worker process.
Resolve ==
  /\ \E f \in DOMAIN tasks :
       /\ tasks[f].st = "running"
       /\ tasks' = [tasks EXCEPT ![f].st = Conclusion(evaluator, tasks[f].tid)]
  /\ UNCHANGED <<cacheVars, configVars, ready, pc, outcome, calls, loopVars,
                 stateVars, poolShut, disk, now, h>>

\* The clock advances.  At the clock's resolution only the bounded wait (and
\* the time between calls) takes time; the other statements are instantaneous.
Tick ==
  /\ now < MaxTime
  /\ pc \in {"idle", "wait"}
  /\ now' = now + 1
  /\ UNCHANGED <<cacheVars, configVars, ready, pc, outcome, calls, loopVars,
                 stateVars, poolVars, disk, h>>

Next ==
  \/ Prepare \/ CallRun \/ CallDunder
  \/ LoopTest \/ WaitReturn \/ HarvestOne \/ HarvestDone \/ TopUpOne \/ TopUpDone
  \/ ExitStatus \/ WriteTape \/ WriteSuggestions \/ WriteRefined
  \/ ShutdownStatus \/ Shutdown \/ Return
  \/ Resolve \/ Tick

Spec == Init /\ [][Next]_vars


(***************************************************************************)
(* A memcached function on its own: calls and clear_cache, lines 22-69.    *)
(***************************************************************************)
runVars == <<configVars, ready, pc, outcome, calls, loopVars,
             stateVars, poolVars, disk, now, h>>

\* memcached.__call__, lines 38-64.
memcached_call(args) ==
  /\ mh.calls < MaxCacheCalls
  /\ LET key == fast_hash(args)
     IN IF key \in DOMAIN memo.cache
          THEN /\ memo' = [memo EXCEPT !.total_hits = @ + 1, !.hits = @ + 1,
                                       !.cache[key].lruc = memo.lruc,
                                       !.lruc = @ + 1]
               /\ mh' = [mh EXCEPT !.calls = @ + 1, !.key = Some(key),
                                   !.returned = Some(memo.cache[key].value),
                                   !.lru = RefUse(@, key, memo.max_entries)]
          ELSE LET value == F(args)
                   put == DictPut(memo.cache, key, [lruc |-> memo.lruc, value |-> value])
                   lruc == memo.lruc + 1
               IN /\ memo' = [memo EXCEPT
                                !.total_misses = @ + 1, !.misses = @ + 1,
                                !.lruc = lruc,
                                !.cache = IF Overflows(put, memo.max_entries)
                                            THEN DictDel(put, Victim(put, lruc, key))
                                            ELSE put]
                  /\ mh' = [mh EXCEPT !.calls = @ + 1, !.invoked = @ + 1,
                                      !.key = Some(key), !.returned = Some(value),
                                      !.lru = RefUse(@, key, memo.max_entries)]
  /\ UNCHANGED <<runVars, diskVars>>

MemCall == \E args \in 1..MaxArgs : memcached_call(args)

\* (mutant) clear_cache resets the lifetime statistics as well.
clear_cache_totals ==
  /\ memo.cache # <<>> \/ memo.hits + memo.misses > 0
  /\ memo' = [memo EXCEPT !.cache = <<>>, !.hits = 0, !.misses = 0,
                          !.total_hits = 0, !.total_misses = 0]
  /\ mh' = [mh EXCEPT !.lru = <<>>]
  /\ UNCHANGED <<runVars, diskVars>>

\* memcached.clear_cache, lines 66-69.
clear_cache ==
  /\ memo.cache # <<>> \/ memo.hits + memo.misses > 0
  /\ memo' = [memo EXCEPT !.cache = <<>>, !.hits = 0, !.misses = 0]
  /\ mh' = [mh EXCEPT !.lru = <<>>]
  /\ UNCHANGED <<runVars, diskVars>>

\* A memcached function as make_memcached(max_entries) builds it, next to a Run
\* that is constructed and left alone.
CacheInit ==
  /\ context = [max_workers |-> 1, shutdown_duration |-> 0, wait_per_loop |-> 1]
  /\ trial_timeout = None
  /\ caught_exceptions = {"TimeoutError"}
  /\ stop = [n |-> 2, t |-> inf]
  /\ evaluator = "plain"
  /\ name = InitName(None)
  /\ ready = FALSE
  /\ pc = "idle" /\ outcome = "" /\ calls = 0
  /\ end = 0 /\ futures = <<>> /\ done = {} /\ running = {}
  /\ n_new_trials = 0 /\ waitStart = 0
  /\ hasState = FALSE /\ evals = <<>> /\ tape = <<>> /\ nextTid = 1
  /\ tasks = <<>> /\ poolShut = 0
  /\ disk = NoDisk
  /\ now = 0
  /\ h = NoHistory
  /\ \E max_entries \in 0..MaxEntries : memo = NewMemcached(max_entries)
  /\ mh = NoCalls
  /\ dc = <<>> /\ files = <<>> /\ dh = NoDiskCalls

CacheNext == MemCall \/ clear_cache

CacheSpec == CacheInit /\ [][CacheNext]_vars


(***************************************************************************)
(* Two diskcached functions on one cache_location, lines 72-139.           *)
(***************************************************************************)
\* diskcached.__call__, lines 94-124, with compute_cache_result, lines 126-139,
\* on wrapped function w; the computation, when there is one, takes `duration`.
diskcached_call(w, args, duration) ==
  /\ dh.calls < MaxDiskCalls
  /\ LET d == dc[w]
         key == compute_hash(d.name, args)
         filename == Filename(d, key)
         val == Fw(w, args)
         tosave == [val |-> val, name |-> d.name, duration |-> duration,
                    readable |-> TRUE]
         called == [dh EXCEPT !.calls = @ + 1,
                              !.last = Some([w |-> w, args |-> args, duration |-> duration])]
         \* compute_cache_result on the directory content fs
         Computed(fs, found) ==
           /\ files' = IF WorthCaching(duration, d.min_duration)
                         THEN DictPut(fs, filename, tosave) ELSE fs
           /\ dh' = [called EXCEPT
                       !.invoked = @ + 1, !.found = found,
                       !.returned = Some(val), !.readfrom = None,
                       !.saved = IF WorthCaching(duration, d.min_duration)
                                   THEN DictPut(@, filename, w)
                                   ELSE DictDel(@, filename)]
     IN IF filename \in DOMAIN files
          THEN IF files[filename].readable
                 THEN /\ dc' = [dc EXCEPT ![w].hits = @ + 1]
                      /\ dh' = [called EXCEPT !.found = "readable",
                                              !.returned = Some(files[filename].val),
                                              !.readfrom = Some(dh.saved[filename])]
                      /\ UNCHANGED files
                 ELSE /\ dc' = [dc EXCEPT ![w].hits = HitsAfterFailedRead(@),
                                          ![w].misses = @ + 1]
                      /\ Computed(DictDel(files, filename), "unreadable")
          ELSE /\ dc' = [dc EXCEPT ![w].misses = @ + 1]
               /\ Computed(files, "nothing")
  /\ UNCHANGED <<runVars, memo, mh>>

DiskCall ==
  \E w \in Wrapped : \E args \in 1..MaxDiskArgs : \E duration \in Durations10 :
    diskcached_call(w, args, duration)

\* A cache file becomes unreadable (truncated or garbled on disk): read_npy will
\* raise EOFError, OSError or UnpicklingError on it.
CorruptFile ==
  /\ \E fn \in DOMAIN files :
       /\ files[fn].readable
       /\ files' = [files EXCEPT ![fn].readable = FALSE]
  /\ UNCHANGED <<runVars, memo, mh, dc, dh>>

\* A Run that is constructed and left alone.
NoRun ==
  /\ context = [max_workers |-> 1, shutdown_duration |-> 0, wait_per_loop |-> 1]
  /\ trial_timeout = None
  /\ caught_exceptions = {"TimeoutError"}
  /\ stop = [n |-> 2, t |-> inf]
  /\ evaluator = "plain"
  /\ name = InitName(None)
  /\ ready = FALSE
  /\ pc = "idle" /\ outcome = "" /\ calls = 0
  /\ end = 0 /\ futures = <<>> /\ done = {} /\ running = {}
  /\ n_new_trials = 0 /\ waitStart = 0
  /\ hasState = FALSE /\ evals = <<>> /\ tape = <<>> /\ nextTid = 1
  /\ tasks = <<>> /\ poolShut = 0
  /\ disk = NoDisk
  /\ now = 0
  /\ h = NoHistory

\* Functions f and g wrapped for the same cache_location, both through
\* make_discached(cache_location, name) with their own names, or both through
\* diskcached(f, cache_location, name).
DiskInit ==
  /\ NoRun
  /\ memo = NewMemcached(0) /\ mh = NoCalls
  /\ \E via \in {"make_discached", "diskcached"} :
       /\ dc = [w \in Wrapped |->
                  IF via = "make_discached" THEN make_discached("cache", w)
                  ELSE NewDiskcached("cache", w, MinDuration)]
       /\ dh = [NoDiskCalls EXCEPT !.via = via]
  /\ files = <<>>

DiskNext == DiskCall \/ CorruptFile

DiskSpec == DiskInit /\ [][DiskNext]_vars


(***************************************************************************)
(* Properties.                                                             *)
(***************************************************************************)
SeqRange(q) == { q[i] : i \in 1..Len(q) }
NoDup(q) == \A i, j \in 1..Len(q) : q[i] = q[j] => i = j
IsPrefix(a, b) == Len(a) <= Len(b) /\ SubSeq(b, 1, Len(a)) = a

\* TrialIDs of the in-flight map.
InFlight == { futures[f] : f \in DOMAIN futures }

\* The latest call was run() and it returned normally.
RunReturned == pc = "idle" /\ outcome = "returned"

\* ResultDB entries of the trials the latest run() call scheduled.
OfThisRun(e) == e.tid \in h.scheduled
Mine == SelectSeq(evals, OfThisRun)

\* Trials the latest run() call scheduled and has not harvested.
Outstanding == h.scheduled \ SeqRange(h.submits)

\* C1 (as claimed): once run() has returned, ResultDB holds exactly one entry for
\* each of the N trials the run scheduled, in-flight ones included.
C1_AllScheduledRecorded ==
  RunReturned =>
    /\ Len(Mine) = Cardinality(h.scheduled)
    /\ Recorded(Mine) = h.scheduled

\* C1 (amended): once run() has returned, ResultDB holds exactly one entry for
\* each scheduled trial that was harvested before the loop exited; the trials
\* whose handles were still in the in-flight map at loop exit are not recorded.
C1_HarvestedRecorded ==
  RunReturned =>
    /\ h.abandoned \subseteq h.scheduled
    /\ Recorded(Mine) = h.scheduled \ h.abandoned
    /\ Len(Mine) = Cardinality(h.scheduled) - Cardinality(h.abandoned)

C1_Witness ==
  RunReturned /\ h.abandoned # {} /\ h.scheduled \ h.abandoned # {}

\* C2: every TrialID is passed to State.submit at most once: no in-flight handle
\* maps to a submitted TrialID, ResultDB holds no TrialID twice, and the run loop
\* never triggers the double-add error.
C2_SubmitAtMostOnce ==
  /\ NoDup(h.submits)
  /\ NoDup([i \in 1..Len(evals) |-> evals[i].tid])
  /\ InFlight \cap SeqRange(h.submits) = {}
  /\ outcome # "ProtocolError"

C2_Witness == Len(h.submits) >= 2 /\ pc = "topup" /\ futures # <<>>

\* C3 (as claimed): during run() the trials scheduled and not yet harvested never
\* number more than max_workers.
C3_AtMostMaxWorkers ==
  pc # "idle" => Cardinality(Outstanding) <= context.max_workers

\* C3 (amended): during run() the trials scheduled and not yet harvested never
\* number more than max_workers + 1.
C3_AtMostMaxWorkersPlusOne ==
  pc # "idle" => Cardinality(Outstanding) <= context.max_workers + 1

C3_Witness ==
  pc = "wait" /\ Cardinality(Outstanding) = context.max_workers + 1

\* C4: the in-flight map never holds more than max_workers + 1 handles.
C4_InFlightBound == Cardinality(DOMAIN futures) <= context.max_workers + 1

C4_Witness ==
  /\ Cardinality(DOMAIN futures) = context.max_workers + 1
  /\ Len(evals) > 0 /\ pc = "loop"

\* C5: a harvest step that continues the loop has recorded a Failure for every
\* handle it took whose evaluation timed out or raised, and that exception is on
\* the caught list; a harvest step that ends run() raises an exception that is
\* not on the caught list and records, suggests and schedules nothing; and once
\* run() has ended only a new call makes the control thread move again.
C5_CaughtRecordedOthersPropagate ==
  [][ /\ (pc = "harvest" /\ pc' = "harvest" /\ done' # done) =>
           \A f \in done \ done' :
             LET o == Outcome(evaluator, tasks[f].st, futures[f])
             IN /\ o.kind = "exc" => o.exc \in caught_exceptions
                /\ o.kind # "ok" =>
                     /\ evals' = Append(evals, [tid |-> futures[f],
                                                config |-> SuggestionOf(futures[f]),
                                                result |-> Finish(o)])
                     /\ Finish(o).kind = "Failure"
                     /\ f \notin DOMAIN futures'
      /\ (pc = "harvest" /\ pc' = "idle") =>
           /\ outcome' \notin caught_exceptions \cup {"returned", ""}
           /\ evals' = evals /\ tape' = tape /\ tasks' = tasks /\ nextTid' = nextTid
      /\ (pc = "idle" /\ pc' # "idle") => calls' = calls + 1
    ]_vars

C5_Witness ==
  /\ pc = "topup"
  /\ \E i \in 1..Len(evals) :
       evals[i].result.kind = "Failure" /\ evals[i].result.failure = "ValueError"

C7_RunBeforePrepareAsserts ==
  /\ [](~ready => pc = "idle" /\ disk = NoDisk /\ tape = <<>> /\ tasks = <<>>)
  /\ [][ (~ready /\ calls' = calls + 1 /\ outcome' \in {"", "AssertionError"}) =>
           /\ outcome' = "AssertionError" /\ pc' = "idle"
           /\ UNCHANGED <<disk, stateVars, poolVars, ready>>
       ]_vars

C7_Witness == outcome = "AssertionError" /\ ~ready /\ calls > 1

\* C8 (as claimed): no loop iteration begins once the clock has reached
\* start + duration - shutdown_duration, for the duration the caller gave to
\* run(duration) or to the Run object.
C8_DeadlineFromDuration ==
  [][ (pc = "loop" /\ pc' = "wait") => now < h.deadline ]_vars

\* C9 (as claimed): the Run moves only forward along unprepared, ready, running,
\* finished: only prepare() makes it ready, a run loop starts only on a ready Run
\* that has not finished a run, and a finished Run is not prepared again.
C9_Lifecycle ==
  [][ /\ ready' # ready => (~ready /\ outcome' = "prepared")
      /\ h.loops' # h.loops => (ready /\ h.finished = 0)
      /\ h.finished > 0 => ~(calls' # calls /\ outcome' = "prepared")
    ]_vars

\* C10: the exit steps of a run() call happen in the order tape, suggestions,
\* (refined suggestions,) shutdown, the shutdown exactly once; when run() has
\* returned they have all happened, the tape on disk is the tape, and the pool
\* was shut down.
ExitWithRefined == <<"tape", "suggestions", "refined", "shutdown">>
ExitPlain == <<"tape", "suggestions", "shutdown">>
C10_ExitOrder ==
  /\ IsPrefix(h.io, ExitWithRefined) \/ IsPrefix(h.io, ExitPlain)
  /\ RunReturned =>
       /\ h.io \in {ExitWithRefined, ExitPlain}
       /\ disk.tape = Some(tape)
       /\ poolShut >= 1
  /\ (pc \in {"exit", "write_tape", "write_suggestions", "write_refined", "exit_status",
              "shutdown"} /\ h.finished = 0) => poolShut = 0

C10_Witness == RunReturned /\ h.io = ExitWithRefined /\ Len(disk.suggestions) >= 2

\* The latest call was run() and a fatal error ended it: an exception that
\* finish, submit, suggest or schedule raised inside the loop.
FatalOutcomes == {"ValueError", "CancelledError", "ProtocolError", "SearchError", "PoolError"}
RunFailed == pc = "idle" /\ outcome \in FatalOutcomes

\* C11 (as claimed): when a fatal error has ended the run loop after results were
\* submitted, the tape accumulated up to that point is on disk in the work
\* directory.
C11_TapeOnDiskAfterFatal ==
  (RunFailed /\ evals # <<>>) => disk.tape = Some(tape)

\* C12 (as claimed): after the first run() that returns, suggestion-i holds entry
\* i of top_suggestions() and, when some trial has refinement data,
\* refined_suggestion-i holds entry i of top_refined_suggestions(); without
\* refinement data there is no refined_suggestion file.
C12_RefinedFilesHoldRefinedRanking ==
  (RunReturned /\ h.finished = 1) =>
    LET refined == top_refined_suggestions(evals, TopK)
    IN /\ disk.suggestions = top_suggestions(evals, TopK)
       /\ disk.refined = IF \E i \in 1..Len(refined) : refined[i] # EmptyConfig
                           THEN refined ELSE <<>>

\* C13 (as claimed): the constructed Run has a name, whether one was given or
\* not; prepare() never fails for the lack of one, and the run.yml it writes
\* carries that name.
C13_NamedAndPrepared ==
  /\ name # None
  /\ outcome # "AttributeError"
  /\ outcome = "prepared" => disk.run_yml = name

\* C14: for every ResultDB content the run produces and every k,
\* top_suggestions(k) has min(k, number of successes) entries, each the
\* configuration of a Success entry, in ascending order of loss with the earlier
\* submission first on ties, and no Success entry left out ranks before one
\* that is included.
Min(a, b) == IF a <= b THEN a ELSE b
C14_TopSuggestionsRanking ==
  \A k \in 0..TopK :
    LET t == top_suggestions(evals, k)
        pos(c) == CHOOSE i \in 1..Len(evals) : evals[i].config = c
        Before(i, j) ==
          \/ evals[i].result.loss < evals[j].result.loss
          \/ evals[i].result.loss = evals[j].result.loss /\ i < j
        In == { pos(t[i]) : i \in 1..Len(t) }
    IN /\ Len(t) = Min(k, Len(Successes(evals)))
       /\ \A i \in 1..Len(t) :
            \E j \in 1..Len(evals) : evals[j].config = t[i] /\ IsSuccess(evals[j])
       /\ \A i, j \in 1..Len(t) : i < j => Before(pos(t[i]), pos(t[j]))
       /\ \A m \in 1..Len(evals) :
            (IsSuccess(evals[m]) /\ m \notin In) => \A i \in In : Before(i, m)

C14_Witness ==
  /\ Len(Successes(evals)) >= 3
  /\ \E i \in 1..Len(evals) : ~IsSuccess(evals[i])
  /\ \E i, j \in 1..Len(Successes(evals)) :
       i < j /\ Successes(evals)[i].result.loss = Successes(evals)[j].result.loss

\* TrialIDs of the "suggested" events of the tape, in order.
IsSuggested(e) == e[1] = "suggested"
SuggestedTids == [i \in 1..Len(SelectSeq(tape, IsSuggested)) |->
                    SelectSeq(tape, IsSuggested)[i][2]]

\* C15: the TrialIDs State.suggest issued are pairwise distinct and distinct from
\* those issued earlier; while the pool is open every suggestion was scheduled
\* exactly once; every in-flight handle maps to the TrialID of the suggestion it
\* evaluates, and no two in-flight handles map to the same TrialID.
C15_DistinctTrialIDs ==
  /\ NoDup(SuggestedTids)
  /\ \A i \in 1..Len(SuggestedTids) : SuggestedTids[i] < nextTid
  /\ poolShut = 0 =>
       \A i \in 1..Len(SuggestedTids) :
         Cardinality({ f \in DOMAIN tasks : tasks[f].tid = SuggestedTids[i] }) = 1
  /\ \A f \in DOMAIN futures : tasks[f].tid = futures[f]
  /\ \A f, g \in DOMAIN futures : futures[f] = futures[g] => f = g

C15_Witness ==
  /\ Cardinality(DOMAIN futures) >= 2
  /\ \E i \in 1..(Len(tape) - 1) : IsSuggested(tape[i]) /\ IsSuggested(tape[i + 1])
  /\ \E i \in 1..(Len(tape) - 1) : ~IsSuggested(tape[i]) /\ IsSuggested(tape[i + 1])

\* TrialIDs whose result the tape `tp` records.
ResolvedOn(tp) == { tp[i][2] : i \in { j \in 1..Len(tp) : ~IsSuggested(tp[j]) } }

\* C16 (as claimed): when prepare() continues a campaign whose work directory
\* holds the tape of a prior run, the State it constructs contains the prior
\* entries (the persisted tape is a prefix of its tape and the trials resolved
\* there are in its ResultDB) and none of the persisted TrialIDs is issued again.
C16_ResumeKeepsPriorEntries ==
  [][ (calls' # calls /\ outcome' = "prepared" /\ disk.tape # None) =>
        /\ IsPrefix(disk.tape[1], tape')
        /\ ResolvedOn(disk.tape[1]) \subseteq Recorded(evals')
        /\ \A i \in 1..Len(disk.tape[1]) : disk.tape[1][i][2] < nextTid'
    ]_vars

\* C17: when the stop condition holds as the wait returns, the iteration
\* harvests, submits, suggests and schedules nothing, and the loop condition that
\* follows ends the loop: there is no further wait.
C17_SkippedIterationExits ==
  [][ /\ (pc = "wait" /\ pc' # "wait" /\ StopDone(stop, evals, now)) =>
           /\ pc' = "loop"
           /\ UNCHANGED <<futures, evals, tape, nextTid, tasks>>
           /\ h'.submits = h.submits /\ h'.scheduled = h.scheduled
      /\ (pc = "loop" /\ pc' # "loop" /\ StopDone(stop, evals, now)) => pc' = "exit"
    ]_vars

C17_Witness == pc = "exit" /\ done # {} /\ StopDone(stop, evals, now)

\* C18: when the harvest of an iteration is over, the in-flight map holds the r
\* handles the wait reported as running and the top-up is sized
\* max(0, max_workers + 1 - r); every pass of the top-up schedules one
\* suggestion; and when the top-up is over it has scheduled them all, so the
\* in-flight map holds max(r, max_workers + 1) handles.
C18_TopUpSize ==
  [][ /\ (pc = "harvest" /\ pc' = "topup") =>
           /\ Cardinality(DOMAIN futures) = Cardinality(running)
           /\ n_new_trials' = Max(0, context.max_workers + 1 - Cardinality(running))
           /\ Cardinality(DOMAIN futures') + n_new_trials'
                = Max(Cardinality(running), context.max_workers + 1)
      /\ (pc = "topup" /\ pc' = "topup" /\ futures' # futures) =>
           /\ n_new_trials' = n_new_trials - 1
           /\ Cardinality(DOMAIN futures') = Cardinality(DOMAIN futures) + 1
           /\ Cardinality(h'.scheduled) = Cardinality(h.scheduled) + 1
      /\ (pc = "topup" /\ pc' = "topup" /\ futures' = futures) =>
           n_new_trials' = n_new_trials
      /\ (pc = "topup" /\ pc' = "loop") =>
           /\ n_new_trials = 0
           /\ futures' = futures
    ]_vars

C18_Witness ==
  /\ pc = "topup" /\ n_new_trials = 0
  /\ \E f \in DOMAIN futures : \E i \in 1..Len(evals) : futures[f] < evals[i].tid

\* C19: during the harvest the handles still to be finished are in-flight handles
\* whose evaluation has concluded, none of them one the wait reported as running;
\* a handle leaves the in-flight map only by being finished in the harvest, one
\* per pass, out of the completed set, with its result submitted; a handle that
\* has left is never put back; and the top-up begins only when every completed
\* handle has been finished.
C19_FinishOnlyCompleted ==
  /\ [](pc = "harvest" =>
          /\ done \subseteq DOMAIN futures
          /\ done \cap running = {}
          /\ \A f \in done : tasks[f].st # "running")
  /\ [][ LET gone == DOMAIN futures \ DOMAIN futures'
         IN /\ (gone # {} /\ pc' # "idle") =>
                 /\ pc = "harvest"
                 /\ Cardinality(gone) = 1
                 /\ gone \subseteq done /\ gone \cap done' = {}
                 /\ \A f \in gone : h'.submits = Append(h.submits, futures[f])
            /\ h'.submits # h.submits => pc = "harvest"
            /\ \A f \in DOMAIN futures' \ DOMAIN futures : f \notin DOMAIN tasks
            /\ (pc = "harvest" /\ pc' = "topup") => done = {}
       ]_vars

C19_Witness == pc = "harvest" /\ done # {} /\ running # {} /\ Len(evals) > 0

\* C20: after every call on a memcached function (hit or miss, any sequence of
\* keys, with clear_cache in between or not) the cache holds at most max_entries
\* entries.
C20_AtMostMaxEntries == Cardinality(DOMAIN memo.cache) <= memo.max_entries

C20_Witness ==
  /\ memo.max_entries >= 1
  /\ Cardinality(DOMAIN memo.cache) = memo.max_entries
  /\ memo.misses > memo.max_entries
  /\ memo.hits > 0

\* C21: for a memcached function with max_entries >= 1 the cached keys are, after
\* every call, those of the reference LRU cache in which hits and insertions
\* both count as a use; a miss on a full cache evicts exactly one entry, the
\* least recently used one, and keeps the entry just inserted; any other call
\* evicts nothing.
C21_MatchesReferenceLRU ==
  /\ [](memo.max_entries >= 1 => DOMAIN memo.cache = SeqRange(mh.lru))
  /\ [][ (memo.max_entries >= 1 /\ mh'.calls # mh.calls) =>
           LET gone == DOMAIN memo.cache \ DOMAIN memo'.cache
               miss == mh'.key[1] \notin DOMAIN memo.cache
               full == Cardinality(DOMAIN memo.cache) = memo.max_entries
           IN /\ mh'.key[1] \in DOMAIN memo'.cache
              /\ (miss /\ full) => gone = {mh.lru[1]}
              /\ ~(miss /\ full) => gone = {}
       ]_vars

\* Keys 1 and 2 were inserted, key 1 was hit, and the miss on key 3 evicted key 2.
C21_Witness ==
  /\ memo.max_entries = 2 /\ mh.calls = 4 /\ memo.hits = 1
  /\ DOMAIN memo.cache = {fast_hash(1), fast_hash(3)}
  /\ memo.cache[fast_hash(1)].lruc = 2
  /\ mh.lru = <<fast_hash(1), fast_hash(3)>>

\* C22: a call invokes the wrapped function exactly when its key is not cached,
\* and on a hit returns the stored value; total_hits + total_misses is the number
\* of calls made and total_misses the number of invocations; clear_cache empties
\* the cache and resets hits and misses and leaves the totals alone.
C22_HitMissAccounting ==
  /\ [](/\ memo.total_hits + memo.total_misses = mh.calls
        /\ memo.total_misses = mh.invoked
        /\ memo.hits <= memo.total_hits /\ memo.misses <= memo.total_misses)
  /\ [][ /\ mh'.calls # mh.calls =>
              LET key == mh'.key[1]
              IN /\ mh'.calls = mh.calls + 1
                 /\ key \in DOMAIN memo.cache =>
                      /\ mh'.invoked = mh.invoked
                      /\ mh'.returned = Some(memo.cache[key].value)
                      /\ memo'.hits = memo.hits + 1 /\ memo'.misses = memo.misses
                      /\ memo'.total_hits = memo.total_hits + 1
                 /\ key \notin DOMAIN memo.cache =>
                      /\ mh'.invoked = mh.invoked + 1
                      /\ memo'.hits = memo.hits /\ memo'.misses = memo.misses + 1
                      /\ memo'.total_misses = memo.total_misses + 1
         /\ (mh'.calls = mh.calls /\ memo' # memo) =>
              /\ memo'.cache = <<>> /\ memo'.hits = 0 /\ memo'.misses = 0
              /\ memo'.total_hits = memo.total_hits
              /\ memo'.total_misses = memo.total_misses
              /\ mh'.invoked = mh.invoked
       ]_vars

C22_Witness ==
  /\ memo.total_hits > memo.hits /\ memo.total_misses > memo.misses
  /\ memo.cache # <<>> /\ memo.misses > 0

\* C23 (as claimed): of two functions wrapped through make_discached with the
\* same cache_location and different names, neither ever reads a cache file the
\* other saved.
C23_NamesKeepCachesApart ==
  (dh.via = "make_discached" /\ dh.readfrom # None) => dh.readfrom = Some(dh.last[1].w)

\* C24: a diskcached call that finds an unreadable file under its filename
\* removes it, invokes the wrapped function once, returns its value and counts a
\* miss and no hit (the file is there afterwards only if the new result was
\* saved); a call that finds a readable file returns the stored value without
\* invoking the function, counts a hit and no miss, and leaves the files alone.
C24_UnreadableFileIsAMiss ==
  [][ dh'.calls # dh.calls =>
        LET w == dh'.last[1].w
            args == dh'.last[1].args
            duration == dh'.last[1].duration
            filename == Filename(dc[w], compute_hash(dc[w].name, args))
        IN /\ (filename \in DOMAIN files /\ ~files[filename].readable) =>
                /\ dh'.invoked = dh.invoked + 1
                /\ dh'.returned = Some(Fw(w, args))
                /\ dc'[w].misses = dc[w].misses + 1
                /\ dc'[w].hits = dc[w].hits
                /\ IF duration > dc[w].min_duration
                     THEN files'[filename].readable /\ files'[filename].val = Fw(w, args)
                     ELSE filename \notin DOMAIN files'
           /\ (filename \in DOMAIN files /\ files[filename].readable) =>
                /\ dh'.invoked = dh.invoked
                /\ dh'.returned = Some(files[filename].val)
                /\ dc'[w].hits = dc[w].hits + 1
                /\ dc'[w].misses = dc[w].misses
                /\ files' = files
    ]_vars

\* The latest call found an unreadable file and removed it, after an earlier
\* call had read it as a hit.
C24_Witness ==
  /\ dh.found = "unreadable" /\ dh.readfrom = None
  /\ dc[dh.last[1].w].hits = 1 /\ dc[dh.last[1].w].misses = 2
  /\ files = <<>>

====
